---------------------------- MODULE Spec2Model ----------------------------
(***************************************************************************)
(* A model of match/match_.py: the scoring, bootstrap confidence interval, *)
(* permutation null distribution and empirical p-value engine.             *)
(*                                                                         *)
(* Conventions.  Vectors are sequences of integers, matrices are sequences *)
(* of rows.  numpy's process-wide random stream is a deterministic         *)
(* generator over a small state space (NextState); seed, get_state,        *)
(* set_state, shuffle and choice act on it as numpy.random does.  The      *)
(* scoring function is a caller-supplied callable: its value is a function *)
(* of its two vectors, and it may in addition touch the process-wide       *)
(* stream (draw from it, or seed it).  pandas' missing value is NaN.       *)
(***************************************************************************)
EXTENDS Integers, Sequences, FiniteSets, Bags, TLC

VARIABLES
    \* ---- one call of match, and the call before it ----
    args,                \* the arguments of match shared by both calls
    jobs,                \* jobs[r]: n_jobs of call r
    ambient,             \* ambient[r]: the process-wide stream when call r starts
    run,                 \* which call of match is running (1 or 2)
    pc,                  \* where match is: score, ci, permute, pvalues, returned, raised
    rng,                 \* the parent process's random stream
    results,             \* the DataFrame results, one row per feature
    tasks,               \* the tasks handed to multiprocess, one per chunk
    completion,          \* the workers' results, in the order they finished
    permutation_scores,  \* the concatenated permutation scores
    hist,                \* what the call has done so far (rounds run, calls made)
    first,               \* what the first call ended with
    \* ---- one call of compute_confidence_interval or permute_and_score ----
    frame,               \* the locals of the call
    trace,               \* per finished round: the stream around the scoring step
    \* ---- one call of compute_p_value / compute_p_values_and_fdrs ----
    pv                   \* the arguments and the value returned

matchVars == <<args, jobs, ambient, run, pc, rng, results, tasks, completion,
               permutation_scores, hist, first>>
roundVars == <<frame, trace>>
vars == <<args, jobs, ambient, run, pc, rng, results, tasks, completion,
          permutation_scores, hist, first, frame, trace, pv>>

---------------------------------------------------------------------------
(* Bounds of the model.                                                    *)

RngMod == 31            \* number of states of the modelled random stream
MaxRows == 3            \* most feature rows of a FeatureMatrix
MaxJobs == 2            \* most worker processes
MaxSamplings == 2       \* most bootstrap rounds in a call of match
MaxPermutations == 1    \* most permutation rounds in a call of match
MaxRounds == 3          \* most rounds of a single resampling loop
MaxPool == 3            \* most null scores in a pool given to compute_p_value
MaxValue == 3           \* largest score given to compute_p_value

RANDOM_SEED == 20121020

---------------------------------------------------------------------------
(* Vectors and matrices.                                                   *)

Range(s) == {s[i] : i \in DOMAIN s}

RECURSIVE SumSeq(_)
SumSeq(s) == IF s = <<>> THEN 0 ELSE Head(s) + SumSeq(Tail(s))

RECURSIVE Concat(_)
Concat(ss) == IF ss = <<>> THEN <<>> ELSE Head(ss) \o Concat(Tail(ss))

Take(x, is) == [k \in 1..Len(is) |-> x[is[k]]]

Swap(x, i, j) == [x EXCEPT ![i] = x[j], ![j] = x[i]]

BagOf(x) == [v \in Range(x) |-> Cardinality({i \in DOMAIN x : x[i] = v})]

\* ceil(0.632 * n)
Ceil632(n) == (632 * n + 999) \div 1000

---------------------------------------------------------------------------
(* numpy.random: the process-wide stream.                                  *)

NextState(st) == (3 * st + 7) % RngMod

seed(s) == s % RngMod

get_state(st) == st

set_stateNoRestore(saved, current) == current

set_state(saved, current) == saved

\* shuffle(x): for i in reversed(range(1, n)): j = interval(i); swap x[i], x[j]
RECURSIVE ShuffleFrom(_, _, _)
ShuffleFrom(x, i, st) ==
    IF i < 2 THEN [x |-> x, st |-> st]
    ELSE LET st1 == NextState(st)
             j == (st1 % i) + 1
         IN ShuffleFrom(Swap(x, i, j), i - 1, st1)

shuffle(x, st) == ShuffleFrom(x, Len(x), st)

\* choice(n, size): size indices drawn uniformly with replacement from n
RECURSIVE choice(_, _, _)
choice(n, size, st) ==
    IF size <= 0 THEN [x |-> <<>>, st |-> st]
    ELSE LET st1 == NextState(st)
             r == choice(n, size - 1, st1)
         IN [x |-> <<(st1 % n) + 1>> \o r.x, st |-> r.st]

---------------------------------------------------------------------------
(* The scoring function and the Scorer.                                    *)

Abs(a) == IF a < 0 THEN -a ELSE a

\* function(target, feature): the value
FnValue(kind, t, f) ==
    CASE kind = "dot" -> SumSeq([i \in DOMAIN t |-> t[i] * f[i]])
      [] kind = "agree" -> Cardinality({i \in DOMAIN t : t[i] = f[i]})
      [] OTHER -> SumSeq([i \in DOMAIN t |-> Abs(t[i] - f[i])])

\* function(target, feature): what the call does to the process-wide stream
FnStream(effect, st) ==
    CASE effect = "draw" -> NextState(st)
      [] effect = "reseed" -> seed(RANDOM_SEED)
      [] OTHER -> st

\* apply_along_axis(lambda feature: function(target, feature), 1, features):
\* one call per row in row order; no row to call it on is a ValueError.
RECURSIVE ApplyRows(_, _, _, _)
ApplyRows(t, rows, fn, st) ==
    IF rows = <<>> THEN [val |-> <<>>, st |-> st]
    ELSE LET r == ApplyRows(t, Tail(rows), fn, FnStream(fn.effect, st))
         IN [val |-> <<FnValue(fn.kind, t, Head(rows))>> \o r.val, st |-> r.st]

apply_along_axis(t, rows, fn, st) ==
    IF Len(rows) = 0
    THEN [ok |-> FALSE, val |-> <<>>, st |-> st]
    ELSE LET r == ApplyRows(t, rows, fn, st)
         IN [ok |-> TRUE, val |-> r.val, st |-> r.st]

score(target, features, fn, st) == apply_along_axis(target, features, fn, st)

---------------------------------------------------------------------------
(* permute_and_score, one step of its code at a time.  The frame holds the  *)
(* call's locals; seed_calls counts the calls of seed it has made.          *)

\* feature_x_permutation / feature_x_sampling: the columns filled so far,
\* laid out as the (n_rows, n_columns) array the call returns.
AsRows(n_rows, columns) ==
    [r \in 1..n_rows |-> [c \in 1..Len(columns) |-> columns[c][r]]]

\* lines 285-292: allocate (a negative dimension is a ValueError), copy the
\* target, seed the stream.
PsEnter(target, features, fn, n_permutations, random_seed, st) ==
    [func |-> "permute_and_score",
     caller_target |-> target,
     target |-> target,
     features |-> features,
     fn |-> fn,
     n |-> n_permutations,
     random_seed |-> random_seed,
     i |-> 0,
     rng |-> IF n_permutations < 0 THEN st ELSE seed(random_seed),
     seed_calls |-> IF n_permutations < 0 THEN 0 ELSE 1,
     random_state |-> st,
     columns |-> <<>>,
     pc |-> IF n_permutations < 0 THEN "raised" ELSE "loop"]

\* line 293: the loop test; line 306: return
PsLoopDone(f) == f.i >= f.n

PsReturn(f) == [f EXCEPT !.pc = "return"]

PsShuffleOriginal(f) ==
    LET s == shuffle(f.caller_target, f.rng)
    IN [f EXCEPT !.target = s.x, !.rng = s.st,
                 !.random_state = get_state(s.st), !.pc = "score"]

\* lines 296-298: shuffle(target) in place, random_state = get_state()
PsShuffle(f) ==
    LET s == shuffle(f.target, f.rng)
    IN [f EXCEPT !.target = s.x, !.rng = s.st,
                 !.random_state = get_state(s.st), !.pc = "score"]

\* lines 301-302: feature_x_permutation[:, i] = score(target, features, function)
PsScore(f) ==
    LET r == score(f.target, f.features, f.fn, f.rng)
    IN IF r.ok
       THEN [f EXCEPT !.columns = Append(@, r.val), !.rng = r.st, !.pc = "restore"]
       ELSE [f EXCEPT !.rng = r.st, !.pc = "raised"]

\* line 304: set_state(random_state); next i
PsRestore(f) ==
    [f EXCEPT !.rng = set_state(f.random_state, f.rng), !.i = @ + 1, !.pc = "loop"]

PsStep(f) ==
    CASE f.pc = "loop" /\ PsLoopDone(f) -> PsReturn(f)
      [] f.pc = "loop" /\ ~PsLoopDone(f) -> PsShuffle(f)
      [] f.pc = "score" -> PsScore(f)
      [] f.pc = "restore" -> PsRestore(f)
      [] OTHER -> f

RECURSIVE PsRun(_)
PsRun(f) == IF f.pc \in {"return", "raised"} THEN f ELSE PsRun(PsStep(f))

\* permute_and_score(target, features, function, n_permutations, random_seed)
\* run to its end in a process whose stream is st.
permute_and_score(target, features, fn, n_permutations, random_seed, st) ==
    LET f == PsRun(PsEnter(target, features, fn, n_permutations, random_seed, st))
    IN [ok |-> f.pc = "return",
        val |-> IF f.pc = "return" THEN AsRows(Len(features), f.columns) ELSE <<>>,
        st |-> f.rng]

---------------------------------------------------------------------------
(* compute_confidence_interval, one step of its code at a time.            *)

NaN == [defined |-> FALSE, z |-> 0, varNum |-> 0, n |-> 0]

\* scipy.stats.norm.ppf(q), in thousandths, for q given in percent
norm_ppf(q) ==
    CASE q = 30 -> -524
      [] q = 50 -> 0
      [] q = 90 -> 1282
      [] q = 95 -> 1645

\* norm.ppf(q=confidence) * f.std() / sqrt(n_samplings) for one row f of
\* feature_x_sampling.  f.std() is sqrt(varNum) / n with
\* varNum = n * sum(f^2) - sum(f)^2, so the value is
\* (z / 1000) * sqrt(varNum) / (n * sqrt(n)); it is kept as (z, varNum, n).
\* With no column numpy's std() is nan, and so is the quotient.
HalfWidth(f, confidence, n_samplings) ==
    IF Len(f) = 0 THEN NaN
    ELSE [defined |-> TRUE,
          z |-> norm_ppf(confidence),
          varNum |-> Len(f) * SumSeq([k \in DOMAIN f |-> f[k] * f[k]])
                       - SumSeq(f) * SumSeq(f),
          n |-> n_samplings]

\* the sign of a half-width: -1, 0 or 1
CISign(ci) ==
    IF ~ci.defined \/ ci.varNum = 0 \/ ci.z = 0 THEN 0
    ELSE IF ci.z < 0 THEN -1 ELSE 1

\* lines 233-235: allocate (a negative dimension is a ValueError), seed
CiEnter(target, features, fn, n_samplings, confidence, random_seed, st) ==
    [func |-> "compute_confidence_interval",
     target |-> target,
     features |-> features,
     fn |-> fn,
     n |-> n_samplings,
     confidence |-> confidence,
     random_seed |-> random_seed,
     i |-> 0,
     rng |-> IF n_samplings < 0 THEN st ELSE seed(random_seed),
     seed_calls |-> IF n_samplings < 0 THEN 0 ELSE 1,
     random_state |-> st,
     random_is |-> <<>>,
     sampled_target |-> <<>>,
     sampled_features |-> <<>>,
     columns |-> <<>>,
     ret |-> <<>>,
     pc |-> IF n_samplings < 0 THEN "raised" ELSE "loop"]

CiLoopDone(f) == f.i >= f.n

\* lines 239-243: random_is = choice(size, ceil(0.632 * size)), sample the
\* target and the feature columns, random_state = get_state()
CiSample(f) ==
    LET c == choice(Len(f.target), Ceil632(Len(f.target)), f.rng)
    IN [f EXCEPT !.random_is = c.x,
                 !.sampled_target = Take(f.target, c.x),
                 !.sampled_features = [r \in DOMAIN f.features |-> Take(f.features[r], c.x)],
                 !.rng = c.st,
                 !.random_state = get_state(c.st),
                 !.pc = "score"]

\* lines 246-248: feature_x_sampling[:, i] = apply_along_axis(function ...)
CiScore(f) ==
    LET r == apply_along_axis(f.sampled_target, f.sampled_features, f.fn, f.rng)
    IN IF r.ok
       THEN [f EXCEPT !.columns = Append(@, r.val), !.rng = r.st, !.pc = "restore"]
       ELSE [f EXCEPT !.rng = r.st, !.pc = "raised"]

\* line 250: set_state(random_state); next i
CiRestore(f) ==
    [f EXCEPT !.rng = set_state(f.random_state, f.rng), !.i = @ + 1, !.pc = "loop"]

\* lines 254-257: one half-width per row of feature_x_sampling; with no row
\* apply_along_axis has nothing to call the lambda on: a ValueError
CiReturn(f) ==
    IF Len(f.features) = 0 THEN [f EXCEPT !.pc = "raised"]
    ELSE [f EXCEPT !.ret = [r \in DOMAIN f.features |->
                              HalfWidth(AsRows(Len(f.features), f.columns)[r],
                                        f.confidence, f.n)],
                   !.pc = "return"]

CiStep(f) ==
    CASE f.pc = "loop" /\ CiLoopDone(f) -> CiReturn(f)
      [] f.pc = "loop" /\ ~CiLoopDone(f) -> CiSample(f)
      [] f.pc = "score" -> CiScore(f)
      [] f.pc = "restore" -> CiRestore(f)
      [] OTHER -> f

RECURSIVE CiRun(_)
CiRun(f) == IF f.pc \in {"return", "raised"} THEN f ELSE CiRun(CiStep(f))

\* compute_confidence_interval(...) run to its end in a process whose stream
\* is st; rounds is the number of bootstrap rounds it ran.
compute_confidence_interval(target, features, fn, n_samplings, confidence, random_seed, st) ==
    LET f == CiRun(CiEnter(target, features, fn, n_samplings, confidence, random_seed, st))
    IN [ok |-> f.pc = "return", val |-> f.ret, st |-> f.rng, rounds |-> f.i]

---------------------------------------------------------------------------
(* The inputs the specifications draw from.                                *)

Targets == {<<1, 2, 3>>, <<1, 2, 3, 4>>, <<2, 1, 1, 3>>}

MatchTargets == {<<1, 2, 3>>, <<1, 2, 3, 4>>}

\* a feature row over m samples: ascending, descending or alternating
FeatureRow(k, m) ==
    [i \in 1..m |-> CASE k % 3 = 0 -> i
                      [] k % 3 = 1 -> m + 1 - i
                      [] OTHER -> 1 + (i % 2)]

\* the feature matrices of n_rows rows over m samples
Matrices(n_rows, m) ==
    {[r \in 1..n_rows |-> FeatureRow(r + v, m)] : v \in 0..1}

Functions ==
    {[kind |-> "dot", effect |-> "none"],
     [kind |-> "dot", effect |-> "draw"],
     [kind |-> "agree", effect |-> "reseed"]}

Seeds == {RANDOM_SEED, 1}

AmbientStates == {0, 9}

Confidences == {30, 95}

Idle == [pc |-> "idle"]

---------------------------------------------------------------------------
(* SpecRounds: one call of permute_and_score or of                         *)
(* compute_confidence_interval, a step of its code at a time.  trace keeps *)
(* for every round the stream before the draw (start), what get_state      *)
(* saved, what was drawn and scored, the stream when the scoring           *)
(* returned (during) and the stream after set_state (after); -1: not yet.  *)

Calls ==
    {[pc |-> "call", func |-> fu, target |-> t, features |-> fs, fn |-> fn, n |-> n,
      confidence |-> 95, random_seed |-> sd, rng |-> a] :
        fu \in {"permute_and_score", "compute_confidence_interval"},
        t \in Targets, fs \in UNION {Matrices(k, 3) \cup Matrices(k, 4) : k \in 1..MaxRows},
        fn \in Functions, n \in 0..MaxRounds, sd \in Seeds, a \in AmbientStates}

RoundsInit ==
    /\ frame \in {c \in Calls : \A r \in DOMAIN c.features : Len(c.features[r]) = Len(c.target)}
    /\ trace = <<>>
    /\ pv = Idle
    /\ args = Idle /\ jobs = <<>> /\ ambient = <<>> /\ run = 0 /\ pc = "idle"
    /\ rng = 0 /\ results = <<>> /\ tasks = <<>> /\ completion = <<>>
    /\ permutation_scores = <<>> /\ hist = Idle /\ first = Idle

Opened(f) ==
    [start |-> frame.rng, saved |-> f.random_state,
     scored |-> IF f.func = "permute_and_score" THEN f.target ELSE f.random_is,
     during |-> -1, after |-> -1]

PsEnterStep ==
    /\ frame.pc = "call" /\ frame.func = "permute_and_score"
    /\ frame' = PsEnter(frame.target, frame.features, frame.fn, frame.n,
                        frame.random_seed, frame.rng)
    /\ UNCHANGED <<trace, pv, matchVars>>

PsShuffleStep ==
    /\ frame.func = "permute_and_score" /\ frame.pc = "loop" /\ ~PsLoopDone(frame)
    /\ frame' = PsShuffle(frame)
    /\ trace' = Append(trace, Opened(frame'))
    /\ UNCHANGED <<pv, matchVars>>

PsScoreStep ==
    /\ frame.func = "permute_and_score" /\ frame.pc = "score"
    /\ frame' = PsScore(frame)
    /\ trace' = [trace EXCEPT ![Len(trace)].during = frame'.rng]
    /\ UNCHANGED <<pv, matchVars>>

PsRestoreStep ==
    /\ frame.func = "permute_and_score" /\ frame.pc = "restore"
    /\ frame' = PsRestore(frame)
    /\ trace' = [trace EXCEPT ![Len(trace)].after = frame'.rng]
    /\ UNCHANGED <<pv, matchVars>>

PsReturnStep ==
    /\ frame.func = "permute_and_score" /\ frame.pc = "loop" /\ PsLoopDone(frame)
    /\ frame' = PsReturn(frame)
    /\ UNCHANGED <<trace, pv, matchVars>>

CiEnterStep ==
    /\ frame.pc = "call" /\ frame.func = "compute_confidence_interval"
    /\ frame' = CiEnter(frame.target, frame.features, frame.fn, frame.n,
                        frame.confidence, frame.random_seed, frame.rng)
    /\ UNCHANGED <<trace, pv, matchVars>>

CiSampleStep ==
    /\ frame.func = "compute_confidence_interval" /\ frame.pc = "loop" /\ ~CiLoopDone(frame)
    /\ frame' = CiSample(frame)
    /\ trace' = Append(trace, Opened(frame'))
    /\ UNCHANGED <<pv, matchVars>>

CiScoreStep ==
    /\ frame.func = "compute_confidence_interval" /\ frame.pc = "score"
    /\ frame' = CiScore(frame)
    /\ trace' = [trace EXCEPT ![Len(trace)].during = frame'.rng]
    /\ UNCHANGED <<pv, matchVars>>

CiRestoreStep ==
    /\ frame.func = "compute_confidence_interval" /\ frame.pc = "restore"
    /\ frame' = CiRestore(frame)
    /\ trace' = [trace EXCEPT ![Len(trace)].after = frame'.rng]
    /\ UNCHANGED <<pv, matchVars>>

CiReturnStep ==
    /\ frame.func = "compute_confidence_interval" /\ frame.pc = "loop" /\ CiLoopDone(frame)
    /\ frame' = CiReturn(frame)
    /\ UNCHANGED <<trace, pv, matchVars>>

RoundsNext ==
    \/ PsEnterStep \/ PsShuffleStep \/ PsScoreStep \/ PsRestoreStep \/ PsReturnStep
    \/ CiEnterStep \/ CiSampleStep \/ CiScoreStep \/ CiRestoreStep \/ CiReturnStep

SpecRounds == RoundsInit /\ [][RoundsNext]_vars

---------------------------------------------------------------------------
(* Claims about the rounds of the two resampling loops.                    *)

Identity(m) == [i \in 1..m |-> i]

\* the stream after one round's draw alone, from st
DrawOnly(func, m, st) ==
    IF func = "permute_and_score" THEN shuffle(Identity(m), st).st
    ELSE choice(m, Ceil632(m), st).st

\* the stream before the draw of round r when nothing but the draws of the
\* rounds before it has touched a stream seeded with random_seed
RECURSIVE DrawsOnly(_, _, _, _)
DrawsOnly(func, m, random_seed, r) ==
    IF r <= 1 THEN seed(random_seed)
    ELSE DrawOnly(func, m, DrawsOnly(func, m, random_seed, r - 1))

InLoop == frame.pc \notin {"call", "idle"}

\* C8: in every round of compute_confidence_interval and of
\* permute_and_score the stream right after the scoring step (after
\* set_state) is the stream right before it (what get_state saved), and so
\* every round's draw starts from the state the draws alone lead to: the
\* bootstrap index draws and the target shuffles are those of a scoring
\* function that never touches the stream.
C8_ScoringLeavesStream ==
    InLoop =>
        \A r \in DOMAIN trace :
            /\ trace[r].after # -1 => trace[r].after = trace[r].saved
            /\ trace[r].start = DrawsOnly(frame.func, Len(frame.target), frame.random_seed, r)

\* a second round has started after a first whose scoring moved the stream
C8_Witness ==
    /\ InLoop
    /\ Len(trace) >= 2
    /\ trace[1].during # trace[1].saved
    /\ trace[1].after = trace[1].saved
    /\ frame.fn.effect # "none"

\* C10: permute_and_score seeds the stream once, before the loop; the target
\* scored in round r >= 2 is round r's shuffle applied to the target scored
\* in round r-1 (round 1's to the caller's target); every scored target is
\* a rearrangement of the caller's target, which stays as it was; column r
\* of feature_x_permutation holds the scores against round r's target.
C10_CumulativeShuffle ==
    (InLoop /\ frame.func = "permute_and_score" /\ frame.n >= 0) =>
        /\ frame.seed_calls = 1
        /\ \A r \in DOMAIN trace :
            LET prev == IF r = 1 THEN frame.caller_target ELSE trace[r - 1].scored
                perm == shuffle(Identity(Len(prev)), trace[r].start).x
            IN /\ trace[r].scored = Take(prev, perm)
               /\ BagOf(trace[r].scored) = BagOf(frame.caller_target)
        /\ \A c \in DOMAIN frame.columns :
            frame.columns[c] = [i \in DOMAIN frame.features |->
                                   FnValue(frame.fn.kind, trace[c].scored, frame.features[i])]

\* the third round has been scored, against a target that is neither the
\* caller's nor the target of the round before
C10_Witness ==
    /\ InLoop /\ frame.func = "permute_and_score"
    /\ Len(frame.columns) >= 3
    /\ trace[3].scored # trace[2].scored
    /\ trace[2].scored # trace[1].scored
    /\ trace[3].scored # frame.caller_target

---------------------------------------------------------------------------
(* compute_p_value and compute_p_values_and_fdrs.  A p-value count / size  *)
(* is kept as the fraction [num, den]; a division by a size of 0 is        *)
(* numpy's nan, kept as 0 / 0.                                             *)

Frac(num, den) == [num |-> num, den |-> den]

FracLess(a, b) == a.num * b.den < b.num * a.den

FracMin(a, b) == IF FracLess(a, b) THEN a ELSE b

\* (value <= random_values).sum() and (random_values <= value).sum()
CountGE(value, random_values) ==
    Cardinality({i \in DOMAIN random_values : value <= random_values[i]})

CountLE(value, random_values) ==
    Cardinality({i \in DOMAIN random_values : random_values[i] <= value})

compute_p_valueNoFloor(value, random_values, greater) ==
    Frac(IF greater THEN CountGE(value, random_values) ELSE CountLE(value, random_values),
         Len(random_values))

\* lines 202-212.  "not p_value" is true of 0 and false of nan.
compute_p_value(value, random_values, greater) ==
    LET size == Len(random_values)
        count == IF greater THEN CountGE(value, random_values)
                 ELSE CountLE(value, random_values)
    IN IF size = 0 THEN Frac(0, 0)
       ELSE IF count = 0 THEN Frac(1, size)
       ELSE Frac(count, size)

\* Python's binding of a call of compute_p_value(value, random_values,
\* greater=True): n_positional positional arguments and the keyword names
\* given.  A required parameter left unbound, or a keyword that names no
\* parameter, is a TypeError.
BindComputePValue(n_positional, keywords) ==
    LET params == <<"value", "random_values", "greater">>
        positional == {params[k] : k \in 1..n_positional}
    IN /\ n_positional <= Len(params)
       /\ keywords \subseteq (Range(params) \ positional)
       /\ {"value", "random_values"} \subseteq (positional \cup keywords)

\* statsmodels' multipletests(pvals, method='fdr_bh')[1]: the
\* Benjamini-Hochberg adjusted p-values, min over the p-values p_j >= p_i
\* of p_j * m / rank(p_j), capped at 1.
fdr_bh(pvals) ==
    LET m == Len(pvals)
        rank(j) == Cardinality({l \in DOMAIN pvals : ~FracLess(pvals[j], pvals[l])})
        scaled(j) == FracMin(Frac(pvals[j].num * m, pvals[j].den * rank(j)), Frac(1, 1))
        above(i) == {scaled(j) : j \in {l \in DOMAIN pvals : ~FracLess(pvals[l], pvals[i])}}
    IN [i \in DOMAIN pvals |->
           CHOOSE a \in above(i) : \A b \in above(i) : ~FracLess(b, a)]

\* lines 180-190.  apply_along_axis(compute_p_value, 0, values) calls
\* compute_p_value(values) once, with the whole vector and nothing else;
\* line 181 adds the single keyword "kwargs".  Neither call binds
\* random_values, so line 180 raises a TypeError for every input and lines
\* 181-190 are never reached.
compute_p_values_and_fdrs(values, random_values) ==
    LET raised == [ok |-> FALSE, p_values |-> <<>>, fdrs |-> <<>>]
        bound_f == BindComputePValue(1, {})
        bound_r == BindComputePValue(1, {"kwargs"})
        p_values_f == [i \in DOMAIN values |-> compute_p_value(values[i], random_values, TRUE)]
        p_values_r == [i \in DOMAIN values |-> compute_p_value(values[i], random_values, FALSE)]
        fdrs_f == fdr_bh(p_values_f)
        fdrs_r == fdr_bh(p_values_r)
    IN IF ~bound_f THEN raised
       ELSE IF ~bound_r THEN raised
       ELSE [ok |-> TRUE,
             p_values |-> [i \in DOMAIN values |-> FracMin(p_values_f[i], p_values_r[i])],
             fdrs |-> [i \in DOMAIN values |-> FracMin(fdrs_f[i], fdrs_r[i])]]

---------------------------------------------------------------------------
(* SpecPValue: one call of compute_p_value or of                           *)
(* compute_p_values_and_fdrs on scores and a pool of null scores.          *)

RECURSIVE SeqsUpTo(_, _)
SeqsUpTo(S, n) ==
    IF n = 0 THEN {<<>>}
    ELSE LET shorter == SeqsUpTo(S, n - 1)
         IN shorter \cup {Append(q, x) : q \in {t \in shorter : Len(t) = n - 1}, x \in S}

PValueCalls ==
    {[pc |-> "call", func |-> "compute_p_value", values |-> <<v>>, random_values |-> rv,
      greater |-> g, ret |-> <<>>] :
        v \in 0..MaxValue, rv \in SeqsUpTo(0..MaxValue, MaxPool), g \in BOOLEAN}
    \cup
    {[pc |-> "call", func |-> "compute_p_values_and_fdrs", values |-> vs, random_values |-> rv,
      greater |-> TRUE, ret |-> <<>>] :
        vs \in SeqsUpTo(1..MaxValue, 2) \ {<<>>},
        rv \in SeqsUpTo({0, 2, MaxValue}, MaxPool) \ {<<>>}}

PValueInit ==
    /\ pv \in PValueCalls
    /\ frame = Idle /\ trace = <<>>
    /\ args = Idle /\ jobs = <<>> /\ ambient = <<>> /\ run = 0 /\ pc = "idle"
    /\ rng = 0 /\ results = <<>> /\ tasks = <<>> /\ completion = <<>>
    /\ permutation_scores = <<>> /\ hist = Idle /\ first = Idle

CallComputePValue ==
    /\ pv.pc = "call" /\ pv.func = "compute_p_value"
    /\ pv' = [pv EXCEPT !.pc = "return",
                        !.ret = compute_p_value(pv.values[1], pv.random_values, pv.greater)]
    /\ UNCHANGED <<roundVars, matchVars>>

CallComputePValuesAndFdrs ==
    /\ pv.pc = "call" /\ pv.func = "compute_p_values_and_fdrs"
    /\ LET r == compute_p_values_and_fdrs(pv.values, pv.random_values)
       IN pv' = [pv EXCEPT !.pc = IF r.ok THEN "return" ELSE "raised", !.ret = r]
    /\ UNCHANGED <<roundVars, matchVars>>

PValueNext == CallComputePValue \/ CallComputePValuesAndFdrs

SpecPValue == PValueInit /\ [][PValueNext]_vars

\* the null values on the tested side of the observed score
OnTestedSide(value, random_values, greater) ==
    {i \in DOMAIN random_values :
        IF greater THEN value <= random_values[i] ELSE random_values[i] <= value}

\* C3: for every observed score and every non-empty pool, in both
\* directions, the p-value compute_p_value returns lies in [1/pool_size, 1]
\* and is never 0; with no null value on the tested side it is 1/pool_size.
C3_PValueRange ==
    (pv.pc = "return" /\ pv.func = "compute_p_value" /\ Len(pv.random_values) > 0) =>
        LET size == Len(pv.random_values)
            p == pv.ret
        IN /\ p.den > 0
           /\ p.num > 0
           /\ p.num * size >= p.den
           /\ p.num <= p.den
           /\ OnTestedSide(pv.values[1], pv.random_values, pv.greater) = {}
                => p.num = 1 /\ p.den = size

\* a reverse p-value was floored: a pool of three, all above the score
C3_Witness ==
    /\ pv.pc = "return" /\ pv.func = "compute_p_value"
    /\ ~pv.greater
    /\ Len(pv.random_values) = 3
    /\ OnTestedSide(pv.values[1], pv.random_values, pv.greater) = {}
    /\ pv.ret = Frac(1, 3)

\* C7: compute_p_values_and_fdrs completes without error and returns for
\* every feature i min(p_forward_i, p_reverse_i), the fractions of the one
\* pool shared by all features on either side of score i, floored at
\* 1/|pool|.
C7_TwoSidedPooledPValue ==
    (pv.func = "compute_p_values_and_fdrs" /\ pv.pc # "call") =>
        /\ pv.pc = "return"
        /\ Len(pv.ret.p_values) = Len(pv.values)
        /\ \A i \in DOMAIN pv.values :
            LET size == Len(pv.random_values)
                ge == CountGE(pv.values[i], pv.random_values)
                le == CountLE(pv.values[i], pv.random_values)
                p_forward == Frac(IF ge = 0 THEN 1 ELSE ge, size)
                p_reverse == Frac(IF le = 0 THEN 1 ELSE le, size)
            IN pv.ret.p_values[i] = FracMin(p_forward, p_reverse)

---------------------------------------------------------------------------
(* match: the helpers it calls.                                            *)

\* numpy.array_split(features, n_jobs): n_jobs sections of consecutive
\* rows, the first (rows % n_jobs) of them one row longer.
ChunkSize(n_rows, n_jobs, c) ==
    (n_rows \div n_jobs) + (IF c <= n_rows % n_jobs THEN 1 ELSE 0)

ChunkStart(n_rows, n_jobs, c) ==
    SumSeq([k \in 1..(c - 1) |-> ChunkSize(n_rows, n_jobs, k)])

array_split(features, n_jobs) ==
    [c \in 1..n_jobs |->
        SubSeq(features,
               ChunkStart(Len(features), n_jobs, c) + 1,
               ChunkStart(Len(features), n_jobs, c) + ChunkSize(Len(features), n_jobs, c))]

\* numpy.concatenate(list of per-chunk arrays), along the feature axis
concatenate(outs) == Concat(outs)

\* array.flatten() of an (n_rows, n_columns) array: row after row
flatten(matrix) == Concat(matrix)

\* helper.df.get_top_and_bottom_indices(results, 'Score', n_features) for a
\* count n_features >= 1: the ceil(n/2) highest and the floor(n/2) lowest
\* scoring rows (ties by position), in row order.
get_top_and_bottom_indices(scores, n_features) ==
    LET above(i) == {j \in DOMAIN scores :
                        scores[j] > scores[i] \/ (scores[j] = scores[i] /\ j < i)}
        below(i) == {j \in DOMAIN scores :
                        scores[j] < scores[i] \/ (scores[j] = scores[i] /\ j > i)}
        n_top == (n_features + 1) \div 2
        n_bottom == n_features \div 2
        chosen == {i \in DOMAIN scores :
                      Cardinality(above(i)) < n_top \/ Cardinality(below(i)) < n_bottom}
        RECURSIVE Ascending(_)
        Ascending(S) ==
            IF S = {} THEN <<>>
            ELSE LET lo == CHOOSE x \in S : \A y \in S : x <= y
                 IN <<lo>> \o Ascending(S \ {lo})
    IN Ascending(chosen)

\* helper.multiprocess.multiprocess(function, list of arguments, n_jobs):
\* one task per argument tuple, each run in a worker process that starts
\* with the parent's stream.  The workers finish in any order and each
\* hands back its result as it finishes; the call returns the results in
\* the order of the arguments.  A task that raises makes the call raise.
NewTasks(n_jobs) == [c \in 1..n_jobs |-> [state |-> "pending"]]

Finished(task, r) == [state |-> IF r.ok THEN "done" ELSE "raised"]

\* what the worker of argument c hands back when it finishes
Arrival(c, r) == [argument |-> c, out |-> r.val]

AllOver(ts) == \A c \in DOMAIN ts : ts[c].state # "pending"

AnyRaised(ts) == \E c \in DOMAIN ts : ts[c].state = "raised"

\* the results as they arrived, put back in the order of the arguments
multiprocess(arrived) ==
    [c \in 1..Len(arrived) |->
        arrived[CHOOSE k \in DOMAIN arrived : arrived[k].argument = c].out]

\* the order in which the workers finished
CompletionOrder == [k \in DOMAIN completion |-> completion[k].argument]

NaNFrac == Frac(0, 0)

\* results = DataFrame(columns=['Score', '<confidence> CI', 'p-value', 'FDR'])
\* with results['Score'] assigned: one row per score, the rest missing
WithScores(scores) ==
    [i \in DOMAIN scores |->
        [Score |-> scores[i], CI |-> NaN, p_value |-> NaNFrac, FDR |-> NaNFrac]]

ScoreColumn(table) == [i \in DOMAIN table |-> table[i].Score]

---------------------------------------------------------------------------
(* Spec: two calls of match, one after the other, on the same target,      *)
(* features, function and options; the calls may differ in n_jobs and in   *)
(* the state the process-wide stream is in when they start.                *)

NoHistory ==
    [score_done |-> FALSE, ci_done |-> FALSE, ci_rounds |-> 0, indices |-> <<>>,
     null_done |-> FALSE, permute_rounds |-> 0,
     pvalues_called |-> FALSE, pool_size |-> 0]

MatchArgs ==
    {[target |-> t, features |-> fs, fn |-> fn, n_features |-> nf, n_samplings |-> ns,
      confidence |-> cf, n_permutations |-> np, random_seed |-> RANDOM_SEED] :
        t \in MatchTargets, fs \in UNION {Matrices(k, 3) \cup Matrices(k, 4) : k \in 1..MaxRows},
        fn \in Functions, nf \in 1..2, ns \in (-1)..MaxSamplings, cf \in Confidences,
        np \in (-1)..MaxPermutations}

Init ==
    /\ args \in {a \in MatchArgs :
                    \A r \in DOMAIN a.features : Len(a.features[r]) = Len(a.target)}
    /\ jobs \in {<<1, k>> : k \in 1..MaxJobs} \cup {<<k, k>> : k \in 1..MaxJobs}
    /\ ambient \in {<<0, a>> : a \in AmbientStates}
    /\ run = 1
    /\ pc = "score"
    /\ rng = ambient[1]
    /\ results = <<>>
    /\ tasks = NewTasks(jobs[1])
    /\ completion = <<>>
    /\ permutation_scores = <<>>
    /\ hist = NoHistory
    /\ first = Idle
    /\ frame = Idle /\ trace = <<>> /\ pv = Idle

split_features == array_split(args.features, jobs[run])

\* lines 129-131, one worker: multiprocess_score((target, fs, function))
ScoreTask(c) ==
    /\ pc = "score" /\ tasks[c].state = "pending"
    /\ LET r == score(args.target, split_features[c], args.fn, rng)
       IN /\ tasks' = [tasks EXCEPT ![c] = Finished(@, r)]
          /\ completion' = Append(completion, Arrival(c, r))
    /\ UNCHANGED <<args, jobs, ambient, run, pc, rng, results, permutation_scores,
                   hist, first, roundVars, pv>>

\* lines 129-131: results['Score'] = concatenate(multiprocess(...))
JoinScore ==
    /\ pc = "score" /\ AllOver(tasks)
    /\ IF AnyRaised(tasks)
       THEN pc' = "raised" /\ UNCHANGED <<results, hist>>
       ELSE /\ pc' = "ci"
            /\ results' = WithScores(concatenate(multiprocess(completion)))
            /\ hist' = [hist EXCEPT !.score_done = TRUE]
    /\ UNCHANGED <<args, jobs, ambient, run, rng, tasks, completion, permutation_scores,
                   first, roundVars, pv>>

\* lines 133-150: the messages of lines 134-139 skip nothing; the indices
\* are chosen and compute_confidence_interval is called whatever
\* n_samplings and the sample size are.
ComputeCI ==
    /\ pc = "ci"
    /\ LET indices == get_top_and_bottom_indices(ScoreColumn(results), args.n_features)
           r == compute_confidence_interval(args.target, Take(args.features, indices),
                                            args.fn, args.n_samplings, args.confidence,
                                            args.random_seed, rng)
       IN /\ rng' = r.st
          /\ hist' = [hist EXCEPT !.ci_done = r.ok, !.ci_rounds = r.rounds,
                                  !.indices = indices]
          /\ IF r.ok
             THEN /\ pc' = "permute"
                  /\ results' = [i \in DOMAIN results |->
                                    IF \E k \in DOMAIN indices : indices[k] = i
                                    THEN [results[i] EXCEPT !.CI =
                                            r.val[CHOOSE k \in DOMAIN indices : indices[k] = i]]
                                    ELSE results[i]]
             ELSE pc' = "raised" /\ UNCHANGED results
    /\ tasks' = NewTasks(jobs[run])
    /\ completion' = <<>>
    /\ UNCHANGED <<args, jobs, ambient, run, permutation_scores, first, roundVars, pv>>

\* lines 160-163, one worker: multiprocess_permute_and_score((target, f,
\* function, n_permutations, random_seed)); the message of line 154 skips
\* nothing.
PermuteTask(c) ==
    /\ pc = "permute" /\ tasks[c].state = "pending"
    /\ LET r == permute_and_score(args.target, split_features[c], args.fn,
                                  args.n_permutations, args.random_seed, rng)
       IN /\ tasks' = [tasks EXCEPT ![c] = Finished(@, r)]
          /\ hist' = [hist EXCEPT !.permute_rounds =
                         @ + (IF r.ok /\ Len(r.val) > 0 THEN Len(r.val[1]) ELSE 0)]
          /\ completion' = Append(completion, Arrival(c, r))
    /\ UNCHANGED <<args, jobs, ambient, run, pc, rng, results, permutation_scores,
                   first, roundVars, pv>>

\* lines 160-163: permutation_scores = concatenate(multiprocess(...))
JoinPermute ==
    /\ pc = "permute" /\ AllOver(tasks)
    /\ IF AnyRaised(tasks)
       THEN pc' = "raised" /\ UNCHANGED <<permutation_scores, hist>>
       ELSE /\ pc' = "pvalues"
            /\ permutation_scores' = concatenate(multiprocess(completion))
            /\ hist' = [hist EXCEPT !.null_done = TRUE]
    /\ UNCHANGED <<args, jobs, ambient, run, rng, results, tasks, completion,
                   first, roundVars, pv>>

\* lines 165-168: results[['p-value', 'FDR']] = compute_p_values_and_fdrs(
\* results['Score'], permutation_scores.flatten()); return results
ComputePValues ==
    /\ pc = "pvalues"
    /\ LET pool == flatten(permutation_scores)
           r == compute_p_values_and_fdrs(ScoreColumn(results), pool)
       IN /\ hist' = [hist EXCEPT !.pvalues_called = TRUE, !.pool_size = Len(pool)]
          /\ IF r.ok
             THEN /\ pc' = "returned"
                  /\ results' = [i \in DOMAIN results |->
                                    [results[i] EXCEPT !.p_value = r.p_values[i],
                                                       !.FDR = r.fdrs[i]]]
             ELSE pc' = "raised" /\ UNCHANGED results
    /\ UNCHANGED <<args, jobs, ambient, run, rng, tasks, completion, permutation_scores,
                   first, roundVars, pv>>

Over == pc \in {"returned", "raised"}

\* the first call is over: the second starts, with its own n_jobs and
\* whatever state the process-wide stream is then in
SecondCall ==
    /\ run = 1 /\ Over
    /\ first' = [pc |-> pc, results |-> results, permutation_scores |-> permutation_scores,
                 hist |-> hist]
    /\ run' = 2
    /\ pc' = "score"
    /\ rng' = ambient[2]
    /\ results' = <<>>
    /\ tasks' = NewTasks(jobs[2])
    /\ completion' = <<>>
    /\ permutation_scores' = <<>>
    /\ hist' = NoHistory
    /\ UNCHANGED <<args, jobs, ambient, roundVars, pv>>

Next ==
    \/ \E c \in DOMAIN tasks : ScoreTask(c)
    \/ JoinScore
    \/ ComputeCI
    \/ \E c \in DOMAIN tasks : PermuteTask(c)
    \/ JoinPermute
    \/ ComputePValues
    \/ SecondCall

Spec == Init /\ [][Next]_vars

---------------------------------------------------------------------------
(* Claims about match.                                                     *)

NSamples == Len(args.target)

NRows == Len(args.features)

CIStageOver == hist.score_done /\ pc # "ci"

\* C1: for every target, feature matrix, scoring function and seed, match
\* with n_jobs = 1 and match with n_jobs = k > 1 yield the same ScoreVector
\* and the same NullScoreMatrix.  Stated for n_permutations >= 1, where the
\* n_jobs = 1 call has a NullScoreMatrix with at least one column.
C1_SameScoresForAnyJobs ==
    (/\ run = 2 /\ jobs[1] = 1 /\ jobs[2] > 1 /\ first.hist.null_done /\ Over
     /\ args.n_permutations >= 1) =>
        /\ hist.null_done
        /\ ScoreColumn(results) = ScoreColumn(first.results)
        /\ permutation_scores = first.permutation_scores

\* What holds of the code in place of C1: the scores and the null scores
\* are the same whenever no chunk is empty (n_jobs <= number of rows).
SameScoresWhenNoChunkIsEmpty ==
    (run = 2 /\ jobs[2] <= NRows /\ first.hist.null_done /\ Over) =>
        /\ hist.null_done
        /\ ScoreColumn(results) = ScoreColumn(first.results)
        /\ permutation_scores = first.permutation_scores

\* C2: two full calls of match on identical inputs and configuration, with
\* the same random_seed, return identical ResultTables whatever the
\* process-wide stream was before each call.  Stated for the calls no
\* option of which is degenerate (no empty chunk, n_samplings >= 2,
\* n_permutations >= 1).
C2_SameResultTable ==
    (/\ run = 2 /\ jobs[1] = jobs[2] /\ Over
     /\ jobs[2] <= NRows /\ args.n_samplings >= 2 /\ args.n_permutations >= 1) =>
        /\ first.pc = "returned"
        /\ pc = "returned"
        /\ results = first.results

\* What holds of the code in place of C2: the two calls end the same way,
\* with the same columns filled as far as they got.
SameOutcomeTwice ==
    (run = 2 /\ jobs[1] = jobs[2] /\ Over) =>
        /\ pc = first.pc
        /\ results = first.results
        /\ permutation_scores = first.permutation_scores
        /\ hist = first.hist

\* C4: if n_samplings < 2 or ceil(0.632 * n_samples) < 3, match runs no
\* bootstrap round and leaves the CI of every feature missing.
C4_SkipLeavesCIMissing ==
    (CIStageOver /\ (args.n_samplings < 2 \/ Ceil632(NSamples) < 3)) =>
        /\ hist.ci_rounds = 0
        /\ \A i \in DOMAIN results : ~results[i].CI.defined

\* C5: if n_permutations < 1, match does not fail: it returns the Score and
\* CI columns, leaves p-value and FDR missing, scores no permuted target
\* and computes no p-value over an empty pool.  Stated for n_permutations
\* = 0 (with a negative count numpy.empty raises in every worker, line 285).
C5_NoPermutationsIsNotAnError ==
    (args.n_permutations = 0 /\ hist.ci_done /\ Over) =>
        /\ pc = "returned"
        /\ hist.permute_rounds = 0
        /\ ~hist.pvalues_called
        /\ Len(results) = NRows
        /\ \A i \in DOMAIN results :
            results[i].p_value = NaNFrac /\ results[i].FDR = NaNFrac

\* The parts of C6.  The chunks of array_split are runs of consecutive rows,
\* in order, and their sizes differ by at most one.
ChunksContiguousAndEven ==
    LET p == jobs[run]
        chunks == array_split(Identity(NRows), p)
    IN /\ Len(chunks) = p
       /\ Concat(chunks) = Identity(NRows)
       /\ \A c, d \in 1..p : Len(chunks[c]) - Len(chunks[d]) <= 1

\* Once the dispatch of lines 129-131 is over, the concatenated scores hold
\* at position i the score of feature row i.
ScoresInPlace ==
    pc # "score" =>
        /\ Len(results) = NRows
        /\ \A i \in 1..NRows :
            results[i].Score = FnValue(args.fn.kind, args.target, args.features[i])

\* Once the dispatch of lines 160-163 is over, the concatenated null scores
\* hold at position i the null scores of feature row i (a negative count of
\* permutations, for which numpy.empty raises, set aside).
NullScoresInPlace ==
    LET alone(i) == permute_and_score(args.target, <<args.features[i]>>, args.fn,
                                      args.n_permutations, args.random_seed, rng)
    IN (hist.ci_done /\ pc # "permute" /\ args.n_permutations >= 0) =>
           /\ Len(permutation_scores) = NRows
           /\ \A i \in 1..NRows : permutation_scores[i] = alone(i).val[1]

\* C6: for every worker count p >= 1 and every feature matrix the rows are
\* split into p chunks of consecutive rows, in order, whose sizes differ by
\* at most one; and whatever the order in which the workers finish, the
\* concatenated scores and null scores hold at position i the output for
\* feature row i.  Stated for the calls that ask for at least one sampling
\* and one permutation.  With more workers than rows a chunk is empty,
\* score raises in its worker (line 328) and there is no concatenated
\* result.
C6_ChunksAndOrder ==
    (run \in {1, 2} /\ args.n_samplings >= 1 /\ args.n_permutations >= 1) =>
        /\ ChunksContiguousAndEven
        /\ ScoresInPlace
        /\ NullScoresInPlace

\* The same statement for the calls in which no chunk is empty: it holds
\* for every order of completion.
OrderKeptWhenNoChunkIsEmpty ==
    (run \in {1, 2} /\ jobs[run] <= NRows) =>
        /\ ChunksContiguousAndEven
        /\ ScoresInPlace
        /\ NullScoresInPlace

\* three rows in two chunks, the second worker finished the permutations
\* first, and the rows' outputs differ
OutOfOrderCompletion ==
    /\ run = 2 /\ jobs[2] = 2 /\ NRows = 3
    /\ pc = "pvalues" /\ hist.null_done
    /\ CompletionOrder = <<2, 1>>
    /\ args.n_permutations >= 1
    /\ permutation_scores[1] # permutation_scores[2]
    /\ permutation_scores[2] # permutation_scores[3]
    /\ results[1].Score # results[3].Score

\* one row handed to two workers: the second chunk is empty
MoreWorkersThanRows ==
    /\ run \in {1, 2} /\ jobs[run] = 2 /\ NRows = 1
    /\ pc = "raised" /\ ~hist.score_done

\* C9: when n_samplings >= 2 and ceil(0.632 * n_samples) >= 3, for every
\* confidence level every selected feature gets a defined, non-negative CI
\* half-width.
C9_HalfWidthNonNegative ==
    (hist.ci_done /\ args.n_samplings >= 2 /\ Ceil632(NSamples) >= 3) =>
        \A k \in DOMAIN hist.indices :
            /\ results[hist.indices[k]].CI.defined
            /\ CISign(results[hist.indices[k]].CI) >= 0

=============================================================================
